---- MODULE Spec2Model ----
(***************************************************************************)
(* slurp: a build staging proxy.  The model covers the three parts of the  *)
(* repository that carry behaviour:                                         *)
(*   - package backend (backend.go, hoarder.go): the blob store client and  *)
(*     its https -> http fallback;                                          *)
(*   - package ssh (main.go, lines 182-444): authentication by build id,    *)
(*     the per-channel request loop and the rsync child process;            *)
(*   - package main (main.go, lines 83-108): the start of the process,      *)
(*     with the host key file and the listener of ssh.Start;                *)
(*   - package api (unnamed/part_001): the stage routes.  The handlers      *)
(*     behind the routes and the mutators of authUsers are not part of the  *)
(*     source tree; they are modelled from the specification (section 4.4). *)
(***************************************************************************)
EXTENDS Integers, Sequences, FiniteSets, TLC

\* ------------------------------------------------------------------ bounds

\* Longest blob (in bytes) a stage commits.
MaxLen == 2

\* Build identifiers, and the byte values blobs are made of.
Ids == {"a", "b"}
Bytes == {1, 2}

RECURSIVE SeqsUpTo(_)
SeqsUpTo(n) ==
    IF n = 0 THEN {<<>>}
    ELSE LET shorter == SeqsUpTo(n - 1)
         IN  shorter \cup {Append(s, b) : s \in {t \in shorter : Len(t) = n - 1}, b \in Bytes}

Data == SeqsUpTo(MaxLen)

\* Longest request payload, and the requests one channel is sent.
MaxPayload == 5
MaxReqs == 2
\* Most starts of the process over one host key file.
MaxBoots == 2

\* Connection and channel slots, user names and offered keys of the ingest side.
Conns == {"c1", "c2"}
Chans == {"h1", "h2"}
\* Each connection opens one session channel: the channel slot of a connection.
ConnOf == [h1 |-> "c1", h2 |-> "c2"]
Users == Ids \cup {"x"}
Keys == {"k1", "k2"}
ReqTypes == {"exec", "env", "shell"}
Payloads == {[i \in 1..n |-> 0] : n \in 0..MaxPayload}
\* The requests a client sends: exec with every payload, the others (whose
\* payload the loop never reads) with an empty one.
Requests == {<<t, p>> \in ReqTypes \X Payloads : t = "exec" \/ p = <<>>}

\* How a child process may end: an exit code, a signal, or a failed wait.
Outcomes ==
    {[kind |-> "exit", code |-> c, sig |-> "-"] : c \in {0, 1, 23}}
    \cup {[kind |-> "signal", code |-> 0, sig |-> g] : g \in {"killed"}}
    \cup {[kind |-> "waiterr", code |-> 0, sig |-> "-"]}

\* ------------------------------------------------------------- configuration

\* A store address is kept as the pieces url.Parse tells apart: the scheme,
\* the separator and the host.
StoreHost == "127.0.0.1:7410"
Endpoint(scheme) == <<scheme, "://", StoreHost>>

\* config.StoreAddr and config.StoreToken as given on the command line.
ConfigStoreAddr == Endpoint("hoarders")
ConfigStoreToken == "token"
\* The configurations a process is started with: the store address with the
\* insecure scheme, the secure scheme and an unknown one, and the -i flag.
Schemes == {"hoarder", "hoarders", "s3"}
Configs == {[StoreAddr |-> Endpoint(s), Insecure |-> i] : s \in Schemes, i \in BOOLEAN}
DefaultConfig == [StoreAddr |-> ConfigStoreAddr, Insecure |-> TRUE]
\* config.BuildDir
ConfigBuildDir == "/var/db/slurp/build/"

\* ------------------------------------------------------------------- values

Absent == <<0>>                  \* no object stored under an id
NoBody == <<-1>>                 \* a nil io.Reader

NoErr == [kind |-> "nil", attempt |-> 0]
TransportErr(n) == [kind |-> "transport", attempt |-> n]
\* fmt.Errorf("401 Unauthorized. Please specify backend api token ...")
UnauthorizedErr == [kind |-> "unauthorized", attempt |-> 0]

NoRes == [status |-> 0, body |-> <<>>]   \* a nil *http.Response
Statuses == {200, 401, 404, 500}

PingPath == <<"ping">>
BlobPath(id) == <<"blobs", id>>

VARIABLES
    \* package ssh / api shared state
    authUsers,      \* ssh.authUsers: the slice of authorized build ids
    created,        \* ids CreateStage has handed out
    open,           \* ids whose stage is open (created, not committed, not deleted)
    deleted,        \* ids for which Delete has completed
    \* package ssh: connections, channels, child processes
    conn,           \* connection slot -> [st, user]
    chan,           \* channel slot -> [st, pc, build, nreq, skipped]: nreq
                    \* requests taken off the channel, skipped of them left
                    \* without an answer
    log,            \* channel slot -> the last request taken off the channel
                    \* and what the loop did for it, in order
    child,          \* channel slot -> the rsync process of the channel; listed
                    \* records whether its build id was in authUsers when
                    \* the process was started
    \* the blob store (the hoarder server)
    store,          \* id -> stored bytes, or Absent
    \* one backend call in flight
    bpc,            \* "idle" | "first" | "fallback" | "check" | "return"
    op,             \* "none" | "initialize" | "readBlob" | "writeBlob"
    bid,            \* the id the call is about ("-" for initialize)
    arg,            \* the bytes handed to writeBlob (NoBody otherwise)
    reader,         \* what is left to read from the body io.Reader
    reqs,           \* the requests this call has issued
    err,            \* rest's err  (first client.Do)
    err2,           \* rest's err2 (second client.Do)
    res,            \* rest's res
    restRet,        \* what rest returned: [res, err]
    ret,            \* what the operation returned to its caller
    lastWrite,      \* the last writeBlob that returned nil: [id, data]
    \* the process and what outlives it
    config,         \* package config: [StoreAddr, Insecure]
    boot,           \* where startSlurp is: "start" | "backend" | "ssh" | "key" |
                    \* "api" | "up" | "aborted"
    fatal,          \* what made startSlurp give up ("none" while it has not)
    listener,       \* ssh serverSocket: "none" | "bound" | "closed"
    apiSrv,         \* the api server: "none" | "serving"
    backend,        \* backend.backend: NoBackend or the hoarder chosen
    storeAddr,      \* backend.storeAddr
    transport,      \* http.DefaultTransport: [skipVerify, writers], writers
                    \* the operations that assigned TLSClientConfig
    hostKey,        \* the file at config.SshHostKey: NoFile or [key, whole, by],
                    \* by the start of the process that wrote it
    gen,            \* key pairs generated so far, over all starts
    boots           \* starts of the process so far

backendVars == <<bpc, op, bid, arg, reader, reqs, err, err2, res, restRet, ret>>
stageVars == <<authUsers, created, open, deleted>>
ingestVars == <<conn, chan, log, child>>
bootVars == <<boot, fatal, listener, apiSrv>>
cfgVars == <<config, backend, storeAddr, transport>>
fsVars == <<hostKey, gen, boots>>
sysVars == <<bootVars, cfgVars, fsVars>>
vars == <<stageVars, ingestVars, store, backendVars, lastWrite, sysVars>>

\* ------------------------------------------------------------ authUsers

Members(s) == {s[i] : i \in DOMAIN s}

\* ssh.AddUser: append to the slice.
AddUser(users, id) == Append(users, id)

\* ssh.DelUser: drop the id from the slice.
DelUser(users, id) == SelectSeq(users, LAMBDA u : u # id)

\* --------------------------------------------------------- hoarder server

\* The body of an answer that is not a success: some text about the status.
ErrorPage(status) == <<status>>

\* What the store may answer to a request that reached it, and the store after.
Respond(method, path, body) ==
    LET refuse == {[status |-> s, body |-> ErrorPage(s), store |-> store] : s \in {401, 500}}
    IN  refuse \cup
        IF path = PingPath
        THEN {[status |-> 200, body |-> <<>>, store |-> store]}
        ELSE LET id == path[2]
             IN  IF method = "GET"
                 THEN IF store[id] = Absent
                      THEN {[status |-> 404, body |-> ErrorPage(404), store |-> store]}
                      ELSE {[status |-> 200, body |-> store[id], store |-> store]}
                 ELSE {[status |-> 200, body |-> <<>>,
                        store |-> [store EXCEPT ![id] = IF body = NoBody THEN <<>> ELSE body]]}

\* -------------------------------------------------------- hoarder.rest

Method == IF op = "writeBlob" THEN "POST" ELSE "GET"
Path == IF op = "initialize" THEN PingPath ELSE BlobPath(bid)

\* http.NewRequest + Header.Add: the request as it goes on the wire.
NewRequest(scheme, method, path, body) ==
    [scheme |-> scheme, host |-> config.StoreAddr, path |-> path, method |-> method,
     token |-> ConfigStoreToken, body |-> body]

\* The body reader after a request failed in transport having read k bytes of it.
Drain(r, k) == IF r = NoBody THEN NoBody ELSE SubSeq(r, k + 1, Len(r))

\* client.Do(req): a transport failure (the reader is left where the failed
\* attempt stopped reading), or an answer of the store.
Do(scheme, failPc, errNo) ==
    LET req == NewRequest(scheme, Method, Path, reader)
    IN  /\ reqs' = Append(reqs, req)
        /\ \/ \E k \in 0..(IF reader = NoBody THEN 0 ELSE Len(reader)) :
                /\ reader' = Drain(reader, k)
                /\ errNo = 1 => (err' = TransportErr(1) /\ err2' = err2)
                /\ errNo = 2 => (err2' = TransportErr(2) /\ err' = err)
                /\ bpc' = failPc
                /\ UNCHANGED <<res, store>>
           \/ \E a \in Respond(Method, Path, reader) :
                /\ reader' = Drain(reader, IF reader = NoBody THEN 0 ELSE Len(reader))
                /\ res' = [status |-> a.status, body |-> a.body]
                /\ store' = a.store
                /\ bpc' = "check"
                /\ UNCHANGED <<err, err2>>

\* The scheme of rest's first request (line 33) and of its second (line 47).
FirstScheme == "https"
\* The second request built like the first.
FallbackSchemeSame == "https"
FallbackScheme == "http"

\* rest returning the error of the request that failed last.
BothFailedLast(e1, e2) == [res |-> NoRes, err |-> e2]

\* rest, lines 55-58: both requests failed; e1 is err, e2 is err2.
BothFailed(e1, e2) == [res |-> NoRes, err |-> e1]

\* rest, lines 35-37: with config.Insecure set, TLSClientConfig of the
\* process-wide http.DefaultTransport is assigned, by the operation o.
SetTLSClientConfig(t, o) ==
    IF config.Insecure
    THEN [skipVerify |-> TRUE, writers |-> t.writers \cup {o}]
    ELSE t

\* rest, lines 31-44: the https request.
restFirst ==
    /\ bpc = "first"
    /\ transport' = SetTLSClientConfig(transport, op)
    /\ Do(FirstScheme, "fallback", 1)
    /\ UNCHANGED <<stageVars, ingestVars, op, bid, arg, restRet, ret, lastWrite>>
    /\ UNCHANGED <<bootVars, config, backend, storeAddr, fsVars>>

\* rest, lines 45-59: the http request after the first failed; when it fails
\* too, rest returns nil and the first error.
restFallback ==
    /\ bpc = "fallback"
    /\ Do(FallbackScheme, "return", 2)
    /\ restRet' = IF bpc' = "return" THEN BothFailed(err, err2') ELSE restRet
    /\ UNCHANGED <<stageVars, ingestVars, op, bid, arg, ret, lastWrite, sysVars>>

\* rest turning every client error status into the authorization error.
CheckStatusAnyClientError(r) ==
    IF r.status >= 400 /\ r.status < 500
    THEN [res |-> NoRes, err |-> UnauthorizedErr]
    ELSE [res |-> r, err |-> NoErr]

\* rest, lines 60-63: 401 becomes an error, everything else is returned.
CheckStatus(r) ==
    IF r.status = 401
    THEN [res |-> NoRes, err |-> UnauthorizedErr]
    ELSE [res |-> r, err |-> NoErr]

restCheck ==
    /\ bpc = "check"
    /\ restRet' = CheckStatus(res)
    /\ bpc' = "return"
    /\ UNCHANGED <<stageVars, ingestVars, store, op, bid, arg, reader, reqs, err, err2, res, ret, lastWrite, sysVars>>

\* ------------------------------------------- initialize, readBlob, writeBlob

NoRet == [body |-> NoBody, err |-> NoErr, panic |-> FALSE]
NoWrite == [id |-> "-", data |-> NoBody]

\* hoarder.initialize, lines 14-17.
initialize(r) == [body |-> NoBody, err |-> r.err, panic |-> FALSE]

\* hoarder.readBlob, lines 19-23: res.Body is read whatever err is; a nil res
\* is a nil pointer dereference.
readBlob(r) ==
    IF r.res = NoRes
    THEN [body |-> NoBody, err |-> NoErr, panic |-> TRUE]
    ELSE [body |-> r.res.body, err |-> r.err, panic |-> FALSE]

\* hoarder.writeBlob, lines 25-28: the response is dropped.
writeBlob(r) == [body |-> NoBody, err |-> r.err, panic |-> FALSE]

BeginCall(o, id, blob) ==
    /\ bpc = "idle"
    /\ bpc' = "first"
    /\ op' = o
    /\ bid' = id
    /\ arg' = blob
    /\ reader' = blob
    /\ reqs' = <<>>
    /\ err' = NoErr
    /\ err2' = NoErr
    /\ res' = NoRes
    /\ restRet' = [res |-> NoRes, err |-> NoErr]
    /\ ret' = NoRet

\* url.Parse on a store address: the scheme and the host.
Parse(addr) == [Scheme |-> addr[1], Host |-> addr[3]]

NoBackend == [proto |-> "-"]

\* backend.Initialize, lines 31-38: the hoarder chosen for a scheme.
Hoarder(scheme) ==
    CASE scheme = "hoarder" -> [proto |-> "http"]
      [] scheme = "hoarders" -> [proto |-> "https"]
      [] OTHER -> [proto |-> "https"]

\* startSlurp going on after backend.Initialize whatever it returned.
AfterInitializeAnyway(e) == "ssh"

\* startSlurp, lines 87-91: on after backend.Initialize, or give up.
AfterInitialize(e) == IF e = NoErr THEN "ssh" ELSE "aborted"

\* startSlurp, line 87: backend.Initialize picks the backend, keeps the
\* host and calls hoarder.initialize (the health probe).
Initialize ==
    /\ boot = "start"
    /\ boot' = "backend"
    /\ backend' = Hoarder(Parse(config.StoreAddr).Scheme)
    /\ storeAddr' = Parse(config.StoreAddr).Host
    /\ BeginCall("initialize", "-", NoBody)
    /\ UNCHANGED <<stageVars, ingestVars, store, lastWrite>>
    /\ UNCHANGED <<fatal, listener, apiSrv, config, transport, fsVars>>

InitializeReturn ==
    /\ bpc = "return" /\ op = "initialize"
    /\ ret' = initialize(restRet)
    /\ bpc' = "idle"
    /\ boot' = AfterInitialize(ret'.err)
    /\ fatal' = IF ret'.err = NoErr THEN fatal ELSE "backend"
    /\ UNCHANGED <<stageVars, ingestVars, store, op, bid, arg, reader, reqs, err, err2, res, restRet, lastWrite>>
    /\ UNCHANGED <<listener, apiSrv, cfgVars, fsVars>>

\* backend.ReadBlob(id) -> hoarder.readBlob(id).
ReadBlob(id) ==
    /\ apiSrv = "serving"
    /\ BeginCall("readBlob", id, NoBody)
    /\ UNCHANGED <<stageVars, ingestVars, store, lastWrite, sysVars>>

ReadBlobReturn ==
    /\ bpc = "return" /\ op = "readBlob"
    /\ ret' = readBlob(restRet)
    /\ bpc' = "idle"
    /\ UNCHANGED <<stageVars, ingestVars, store, op, bid, arg, reader, reqs, err, err2, res, restRet, lastWrite, sysVars>>

\* ------------------------------------------------------- stage lifecycle

\* CreateStage: a fresh identifier, inserted into the authorized set.
CreateStage(id) ==
    /\ apiSrv = "serving"
    /\ id \notin created
    /\ created' = created \cup {id}
    /\ open' = open \cup {id}
    /\ authUsers' = AddUser(authUsers, id)
    /\ UNCHANGED <<deleted, ingestVars, store, backendVars, lastWrite, sysVars>>

\* Delete(id): the identifier leaves the authorized set.
DeleteStage(id) ==
    /\ apiSrv = "serving"
    /\ id \in created
    /\ open' = open \ {id}
    /\ deleted' = deleted \cup {id}
    /\ authUsers' = DelUser(authUsers, id)
    /\ UNCHANGED <<created, ingestVars, store, backendVars, lastWrite, sysVars>>

\* Commit(id): the staging directory's content goes to backend.WriteBlob.
Commit(id, content) ==
    /\ apiSrv = "serving"
    /\ id \in open
    /\ BeginCall("writeBlob", id, content)
    /\ UNCHANGED <<stageVars, ingestVars, store, lastWrite, sysVars>>

\* Commit(id) once writeBlob has returned: an error leaves the stage open,
\* success retires the identifier.
CommitReturn ==
    /\ bpc = "return" /\ op = "writeBlob"
    /\ ret' = writeBlob(restRet)
    /\ bpc' = "idle"
    /\ IF ret'.err = NoErr
       THEN /\ open' = open \ {bid}
            /\ authUsers' = DelUser(authUsers, bid)
       ELSE UNCHANGED <<open, authUsers>>
    /\ lastWrite' = IF ret'.err = NoErr THEN [id |-> bid, data |-> arg] ELSE lastWrite
    /\ UNCHANGED <<created, deleted, ingestVars, store, op, bid, arg, reader, reqs, err, err2, res, restRet, sysVars>>

\* ------------------------------------------------------------- userAuth

UserNotFound == [kind |-> "User not found!", attempt |-> 0]

\* userAuth, main.go lines 326-337: walk authUsers from position i on, return
\* nil at the first entry equal to the user name, an error after the last.
RECURSIVE userAuthFrom(_, _, _)
userAuthFrom(user, key, i) ==
    IF i > Len(authUsers) THEN UserNotFound
    ELSE IF user = authUsers[i] THEN NoErr
    ELSE userAuthFrom(user, key, i + 1)

\* userAuth never looking into authUsers.
userAuthAnyone(user, key) == NoErr

\* userAuth consulting the offered key as well (accepting one key only).
userAuthKeyed(user, key) ==
    IF key = "k1" THEN userAuthFrom(user, key, 1) ELSE UserNotFound

\* userAuth with the comparison of line 330 inverted.
userAuthInverted(user, key) ==
    IF \E i \in DOMAIN authUsers : user # authUsers[i] THEN NoErr ELSE UserNotFound

userAuth(user, key) == userAuthFrom(user, key, 1)

\* ------------------------------------------------- os.ProcessState.String

ExitStatusStr == <<"e","x","i","t"," ","s","t","a","t","u","s">>
SignalStr == <<"s","i","g","n","a","l",":">>
NilStr == <<"<","n","i","l",">">>
SigNames == [killed |-> <<"k","i","l","l","e","d">>]
Digit(d) == <<"0","1","2","3","4","5","6","7","8","9">>[d + 1]

\* strconv.Itoa on a number that is not negative.
RECURSIVE Itoa(_)
Itoa(n) == IF n < 10 THEN <<Digit(n)>> ELSE Append(Itoa(n \div 10), Digit(n % 10))

\* state.String() for the state (or nil) that cmd.Process.Wait returned.
StateString(o) ==
    CASE o.kind = "exit" -> ExitStatusStr \o <<" ">> \o Itoa(o.code)
      [] o.kind = "signal" -> SignalStr \o <<" ">> \o SigNames[o.sig]
      [] OTHER -> NilStr

\* strings.Contains
Contains(s, sub) ==
    \E i \in 0..(Len(s) - Len(sub)) : SubSeq(s, i + 1, i + Len(sub)) = sub

\* strings.Split(s, " "): the fields between single spaces, from position i on.
RECURSIVE SplitFrom(_, _, _)
SplitFrom(s, i, cur) ==
    IF i > Len(s) THEN <<cur>>
    ELSE IF s[i] = " " THEN <<cur>> \o SplitFrom(s, i + 1, <<>>)
    ELSE SplitFrom(s, i + 1, Append(cur, s[i]))

Split(s) == SplitFrom(s, 1, <<>>)

\* waitedRun handing the child's own exit code to the client.
exitStatusBufferCode(o) ==
    IF o.kind = "exit" THEN <<0, 0, 0, o.code>> ELSE <<0, 0, 0, 2>>

\* waitedRun, lines 428-439: the exit status buffer for a process state.
exitStatusBuffer(o) ==
    LET str == StateString(o)
    IN  IF Contains(str, ExitStatusStr)
        THEN IF Split(str)[3] # <<"0">> THEN <<0, 0, 0, 1>> ELSE <<0, 0, 0, 0>>
        ELSE <<0, 0, 0, 2>>

\* ------------------------------------------------------------ ssh.Start

NoFile == [key |-> 0, whole |-> FALSE, by |-> 0]

\* os.Stat(config.SshHostKey) returning no error: the file is there.
Stat(f) == f # NoFile

\* initialize generating a key without looking for the file.
NeedsKeyAlways(f) == TRUE

\* initialize, lines 208-211: a key is made only when Stat found no file.
NeedsKey(f) == ~Stat(f)

\* The frame of the last backend call, gone once its caller moves on.
IdleFrame ==
    /\ bpc' = "idle"
    /\ op' = "none"
    /\ bid' = "-"
    /\ arg' = NoBody
    /\ reader' = NoBody
    /\ reqs' = <<>>
    /\ err' = NoErr
    /\ err2' = NoErr
    /\ res' = NoRes
    /\ restRet' = [res |-> NoRes, err |-> NoErr]
    /\ ret' = NoRet

\* startSlurp, line 94, and Start, lines 270-273: initialize (lines 206-233)
\* leaves an existing key file alone; otherwise it generates a key pair and
\* writes the private key, and any failure on the way makes Start fail.  A
\* failed WriteFile may have created the file and written part of the key.
StartInitialize ==
    /\ boot = "ssh"
    /\ IdleFrame
    /\ IF ~NeedsKey(hostKey)
       THEN /\ boot' = "key"
            /\ UNCHANGED <<fatal, hostKey, gen>>
       ELSE \/ \* genKeyPair failed
               /\ boot' = "aborted" /\ fatal' = "hostkey"
               /\ UNCHANGED <<hostKey, gen>>
            \/ \* MkdirAll failed, or WriteFile failed to create the file
               /\ gen' = gen + 1
               /\ boot' = "aborted" /\ fatal' = "hostkey"
               /\ UNCHANGED hostKey
            \/ \* WriteFile failed after creating the file
               /\ gen' = gen + 1
               /\ hostKey' = [key |-> gen', whole |-> FALSE, by |-> boots]
               /\ boot' = "aborted" /\ fatal' = "hostkey"
            \/ \* the key is written
               /\ gen' = gen + 1
               /\ hostKey' = [key |-> gen', whole |-> TRUE, by |-> boots]
               /\ boot' = "key"
               /\ UNCHANGED fatal
    /\ UNCHANGED <<stageVars, ingestVars, store, lastWrite>>
    /\ UNCHANGED <<listener, apiSrv, cfgVars, boots>>

\* Start going on to the accept loop although net.Listen failed.
AfterListenAnyway(ok) == "bound"

\* Start, lines 298-301 and 306-317: the accept loop is started on the
\* socket net.Listen returned.
AfterListen(ok) == IF ok THEN "bound" ELSE "none"

\* Start, lines 275-317: read the key file, parse it, bind the listener and
\* start the accept loop.
StartListen ==
    /\ boot = "key"
    /\ \/ \* getKey: ReadFile failed
          /\ boot' = "aborted" /\ fatal' = "getkey"
          /\ UNCHANGED listener
       \/ \* ParsePrivateKey refuses what is not a whole key
          /\ ~hostKey.whole
          /\ boot' = "aborted" /\ fatal' = "parse"
          /\ UNCHANGED listener
       \/ \* net.Listen, failing or not
          /\ hostKey.whole
          /\ \E ok \in BOOLEAN :
                /\ listener' = AfterListen(ok)
                /\ boot' = IF ok THEN "api" ELSE "aborted"
                /\ fatal' = IF ok THEN fatal ELSE "listen"
    /\ UNCHANGED <<stageVars, ingestVars, store, backendVars, lastWrite>>
    /\ UNCHANGED <<apiSrv, cfgVars, fsVars>>

\* startSlurp, lines 101-105, and StartApi, lines 33-55: the api server
\* serves, or StartApi returns an error, startSlurp returns and the process
\* ends, the accept loop with it.
StartApi ==
    /\ boot = "api"
    /\ \/ /\ apiSrv' = "serving"
          /\ boot' = "up"
          /\ UNCHANGED <<fatal, listener>>
       \/ /\ boot' = "aborted" /\ fatal' = "api"
          /\ listener' = "closed"
          /\ UNCHANGED apiSrv
    /\ UNCHANGED <<stageVars, ingestVars, store, backendVars, lastWrite>>
    /\ UNCHANGED <<cfgVars, fsVars>>

\* ------------------------------------------------------ connections

NoConn == [st |-> "none", user |-> "-"]
NoChan == [st |-> "none", pc |-> "none", build |-> "-", nreq |-> 0, skipped |-> 0]
NoChild == [st |-> "none", argv |-> <<>>, dir |-> "-", outcome |-> "-", listed |-> FALSE]

\* The accept loop of Start (lines 306-316) runs from the moment the listener
\* is bound until the process ends.
Accepting == listener = "bound"

\* The accept loop ended by a failed Accept.
AfterAcceptErrorReturn == "closed"

\* Start, lines 309-312: after a failed Accept the loop continues.
AfterAcceptError == "bound"

\* Start, lines 308-312: serverSocket.Accept failed for an incoming
\* connection; the error is logged and the loop goes on.
AcceptFailed(c) ==
    /\ Accepting
    /\ conn[c].st = "none"
    /\ conn' = [conn EXCEPT ![c].st = "acceptfailed"]
    /\ listener' = AfterAcceptError
    /\ UNCHANGED <<stageVars, chan, log, child, store, backendVars, lastWrite>>
    /\ UNCHANGED <<boot, fatal, apiSrv, cfgVars, fsVars>>

\* Start, lines 308-314, and handleConnection, lines 340-349: a connection
\* is accepted and the handshake calls userAuth with the user name and the
\* key the client offers; a failed handshake drops the connection.
handleConnection(c, user, key) ==
    /\ Accepting
    /\ conn[c].st = "none"
    /\ conn' = [conn EXCEPT ![c] =
                  [st |-> IF userAuth(user, key) = NoErr THEN "authed" ELSE "failed",
                   user |-> user]]
    /\ UNCHANGED <<stageVars, chan, log, child, store, backendVars, lastWrite, sysVars>>

\* handleConnection, lines 354-361, and handleChannel, lines 365-372: a
\* session channel is accepted and its request loop started, or
\* newChannel.Accept fails and handleChannel returns.
handleChannel(h, c) ==
    /\ Accepting
    /\ conn[c].st = "authed"
    /\ chan[h].st = "none"
    /\ c = ConnOf[h]
    /\ \/ chan' = [chan EXCEPT ![h] =
                     [st |-> "open", pc |-> "wait", build |-> conn[c].user,
                      nreq |-> 0, skipped |-> 0]]
       \/ chan' = [chan EXCEPT ![h].st = "acceptfailed"]
    /\ UNCHANGED <<stageVars, conn, log, child, store, backendVars, lastWrite, sysVars>>

\* ------------------------------------------------- the request loop

EvRequest(type, payload) == <<"request", type, payload>>
EvReply(ok) == <<"reply", ok>>
EvSpawn == <<"spawn">>
EvExitStatus(buf) == <<"exit-status", buf>>
EvClose == <<"close">>

\* The command with the build directory itself as its destination.
CommandNoBuild(build) == <<"rsync", "--server", "-vlogDtprRe.iLsfx", "--delete", ".", <<".", "/">>>>

\* exec.Command(...), lines 399-400.
Command(build) == <<"rsync", "--server", "-vlogDtprRe.iLsfx", "--delete", ".", <<build, "/">>>>

\* The loop's switch, lines 375-388: whether the request is answered at all
\* (an exec with a short payload continues the loop before req.Reply), what
\* the answer is, and whether waitedRun is called.
Answered(type, payload) == ~(type = "exec" /\ Len(payload) < 4)
Ok(type, payload) == type \in {"exec", "env"}
\* The length check of line 379 off by one.
RunsOffByOne(type, payload) == type = "exec" /\ Len(payload) >= 3

Runs(type, payload) == type = "exec" /\ Len(payload) >= 4

\* The loop taking requests while waitedRun runs beside it.
ReadyBesideRun(h) == chan[h].pc \in {"wait", "run"}

\* handleChannel, lines 373 and 385: waitedRun is called by the loop itself,
\* which is back at its range over the requests only once waitedRun has
\* returned.
Ready(h) == chan[h].pc = "wait"

\* One request taken off the channel, lines 373-390, up to the point where
\* the loop blocks again: in cmd.Process.Wait when the child has started,
\* on the next request otherwise.
requestLoop(h, type, payload) ==
    /\ Accepting
    /\ chan[h].st = "open" /\ Ready(h)
    /\ chan[h].nreq < MaxReqs
    /\ LET got == <<EvRequest(type, payload)>>
       IN  IF Runs(type, payload)
           THEN \/ \* cmd.Start succeeded: blocked in Wait
                   /\ child' = [child EXCEPT ![h] =
                                  [st |-> "running", argv |-> Command(chan[h].build),
                                   dir |-> ConfigBuildDir, outcome |-> "-",
                                   listed |-> chan[h].build \in Members(authUsers)]]
                   /\ log' = [log EXCEPT ![h] = Append(got, EvSpawn)]
                   /\ chan' = [chan EXCEPT ![h].pc = "run", ![h].nreq = @ + 1]
                \/ \* cmd.Start failed: waitedRun returns, the deferred Close
                   \* runs, then req.Reply
                   /\ child' = [child EXCEPT ![h].st = "startfail"]
                   /\ log' = [log EXCEPT ![h] = got \o <<EvClose, EvReply(Ok(type, payload))>>]
                   /\ chan' = [chan EXCEPT ![h].st = "closed", ![h].pc = "done", ![h].nreq = @ + 1]
           ELSE /\ log' = [log EXCEPT ![h] =
                             IF Answered(type, payload)
                             THEN Append(got, EvReply(Ok(type, payload)))
                             ELSE got]
                /\ chan' = [chan EXCEPT ![h].nreq = @ + 1,
                                        ![h].skipped = IF Answered(type, payload) THEN @ ELSE @ + 1]
                /\ UNCHANGED child
    /\ UNCHANGED <<stageVars, conn, store, backendVars, lastWrite, sysVars>>

\* waitedRun from the return of cmd.Process.Wait, lines 418-443, the deferred
\* channel.Close (line 396) and the loop's req.Reply (line 389).
waitedRun(h, o) ==
    /\ Accepting
    /\ chan[h].pc = "run"
    /\ child' = [child EXCEPT ![h].st = "exited", ![h].outcome = o]
    /\ log' = [log EXCEPT ![h] =
                 @ \o <<EvExitStatus(exitStatusBuffer(o)), EvClose, EvReply(TRUE)>>]
    /\ chan' = [chan EXCEPT ![h].st = "closed", ![h].pc = "done"]
    /\ UNCHANGED <<stageVars, conn, store, backendVars, lastWrite, sysVars>>

\* ------------------------------------------------------------ specification

\* The memory of a process that has just been started.
Started ==
    /\ authUsers = <<>>
    /\ created = {}
    /\ open = {}
    /\ deleted = {}
    /\ conn = [c \in Conns |-> NoConn]
    /\ chan = [h \in Chans |-> NoChan]
    /\ log = [h \in Chans |-> <<>>]
    /\ child = [h \in Chans |-> NoChild]
    /\ bpc = "idle"
    /\ op = "none"
    /\ bid = "-"
    /\ arg = NoBody
    /\ reader = NoBody
    /\ reqs = <<>>
    /\ err = NoErr
    /\ err2 = NoErr
    /\ res = NoRes
    /\ restRet = [res |-> NoRes, err |-> NoErr]
    /\ ret = NoRet
    /\ lastWrite = NoWrite
    /\ boot = "start"
    /\ fatal = "none"
    /\ listener = "none"
    /\ apiSrv = "none"
    /\ backend = NoBackend
    /\ storeAddr = "-"
    /\ transport = [skipVerify |-> FALSE, writers |-> {}]

\* The first start of the process, on a machine with no host key file and
\* an empty store, under any of the configurations.
InitAny ==
    /\ Started
    /\ config \in Configs
    /\ store = [id \in Ids |-> Absent]
    /\ hostKey = NoFile
    /\ gen = 0
    /\ boots = 1

\* The same under the configuration of the command line defaults.
Init == InitAny /\ config = DefaultConfig

\* The process is stopped and started again: its memory is that of a fresh
\* process, the configuration, the key file and the store are what they were.
Restart ==
    /\ boots < MaxBoots
    /\ boots' = boots + 1
    /\ authUsers' = <<>>
    /\ created' = {}
    /\ open' = {}
    /\ deleted' = {}
    /\ conn' = [c \in Conns |-> NoConn]
    /\ chan' = [h \in Chans |-> NoChan]
    /\ log' = [h \in Chans |-> <<>>]
    /\ child' = [h \in Chans |-> NoChild]
    /\ IdleFrame
    /\ lastWrite' = NoWrite
    /\ boot' = "start"
    /\ fatal' = "none"
    /\ listener' = "none"
    /\ apiSrv' = "none"
    /\ backend' = NoBackend
    /\ storeAddr' = "-"
    /\ transport' = [skipVerify |-> FALSE, writers |-> {}]
    /\ UNCHANGED <<config, store, hostKey, gen>>

\* startSlurp, lines 83-108.
NextStart ==
    \/ Initialize
    \/ InitializeReturn
    \/ restFirst
    \/ restFallback
    \/ restCheck
    \/ StartInitialize
    \/ StartListen
    \/ StartApi

\* The stage lifecycle and the backend calls.
NextStore ==
    \/ NextStart
    \/ \E id \in Ids : ReadBlob(id)
    \/ ReadBlobReturn
    \/ \E id \in Ids : CreateStage(id)
    \/ \E id \in Ids : DeleteStage(id)
    \/ \E id \in Ids, content \in Data : Commit(id, content)
    \/ CommitReturn

SpecStore == Init /\ [][NextStore]_vars

\* The ingest server with the stages created and deleted around it.
NextIngest ==
    \/ NextStart
    \/ \E id \in Ids : CreateStage(id)
    \/ \E id \in Ids : DeleteStage(id)
    \/ \E c \in Conns : AcceptFailed(c)
    \/ \E c \in Conns, u \in Users, k \in Keys : handleConnection(c, u, k)
    \/ \E h \in Chans, c \in Conns : handleChannel(h, c)
    \/ \E h \in Chans, r \in Requests : requestLoop(h, r[1], r[2])
    \/ \E h \in Chans, o \in Outcomes : waitedRun(h, o)

SpecIngest == Init /\ [][NextIngest]_vars

\* Starts and restarts of the process under every configuration, with the
\* first things it does once started.
NextBoot ==
    \/ NextStart
    \/ Restart
    \/ \E id \in Ids : CreateStage(id)
    \/ \E id \in Ids : ReadBlob(id)
    \/ ReadBlobReturn
    \/ \E c \in Conns : AcceptFailed(c)
    \/ \E c \in Conns, u \in Users, k \in Keys : handleConnection(c, u, k)

SpecBoot == InitAny /\ [][NextBoot]_vars

\* The whole program.
Next == NextStore \/ NextIngest \/ Restart

Spec == InitAny /\ [][Next]_vars

\* ------------------------------------------------------------------ claims

Returned == bpc \in {"return", "idle"} /\ op # "none"
LastRequest(h) == log[h][1]
ShortExec(h) ==
    /\ log[h] # <<>>
    /\ LastRequest(h)[2] = "exec"
    /\ Len(LastRequest(h)[3]) < 4

\* C1: a handshake is accepted exactly when the user name is in authUsers at
\* the time userAuth is called, and the key offered plays no part: for every
\* user name and key userAuth returns nil iff the name is a member, and every
\* step that completes a handshake accepts iff the name is a member.
C1_AuthIffMember ==
    /\ [](\A u \in Users, k \in Keys :
            (userAuth(u, k) = NoErr) <=> (u \in Members(authUsers)))
    /\ [][\A c \in Conns :
            conn'[c] # conn[c] =>
                (conn'[c].st = "authed" <=> conn'[c].user \in Members(authUsers))]_vars

\* A handshake was accepted, and one was refused for an id that had a stage.
C1_Witness ==
    \E c, d \in Conns :
        /\ conn[c].st = "authed"
        /\ conn[d].st = "failed" /\ conn[d].user \in created

C3_ShortExecIgnored ==
    \A h \in Chans :
        ShortExec(h) =>
            /\ log[h] = <<LastRequest(h)>>
            /\ child[h].st = "none"
            /\ chan[h].st = "open"
            /\ chan[h].pc = "wait"

\* A channel took an exec with a 3 byte payload after an earlier short exec,
\* so the loop did go on to its next request.
C3_Witness ==
    \E h \in Chans :
        /\ ShortExec(h) /\ Len(LastRequest(h)[3]) = 3
        /\ chan[h].nreq = 2 /\ chan[h].skipped = 2

ExpectedBuffer(o) ==
    IF o.kind = "exit"
    THEN IF o.code = 0 THEN <<0, 0, 0, 0>> ELSE <<0, 0, 0, 1>>
    ELSE <<0, 0, 0, 2>>

\* C4: the exit-status sent on a channel is {0,0,0,0} for exit code 0,
\* {0,0,0,1} for any other exit code and {0,0,0,2} when the process did not
\* exit normally or the wait failed; it is sent once the child has ended and
\* nothing else is ever sent as exit-status.
C4_ExitStatusMapping ==
    \A h \in Chans :
        /\ child[h].st = "exited" =>
              \E i \in DOMAIN log[h] : log[h][i] = EvExitStatus(ExpectedBuffer(child[h].outcome))
        /\ \A i \in DOMAIN log[h] :
              log[h][i][1] = "exit-status" =>
                  /\ child[h].st = "exited"
                  /\ log[h][i][2] = ExpectedBuffer(child[h].outcome)

\* One child exited with code 23 and one was killed by a signal.
C4_Witness ==
    \E h, g \in Chans :
        /\ child[h].st = "exited" /\ child[h].outcome.kind = "exit" /\ child[h].outcome.code = 23
        /\ child[g].st = "exited" /\ child[g].outcome.kind = "signal"

\* C5: one backend call issues at most two requests; the first is https; a
\* second is issued exactly when the first failed in transport, and it is the
\* same request (host, path, method, token) over http.
C5_OneFallback ==
    /\ Len(reqs) <= 2
    /\ Len(reqs) >= 1 => reqs[1].scheme = "https"
    /\ Len(reqs) = 2 =>
          /\ err = TransportErr(1)
          /\ reqs[2].scheme = "http"
          /\ reqs[2].host = reqs[1].host
          /\ reqs[2].path = reqs[1].path
          /\ reqs[2].method = reqs[1].method
          /\ reqs[2].token = reqs[1].token
    /\ (Returned \/ bpc = "check") => (Len(reqs) = IF err = NoErr THEN 1 ELSE 2)

\* A writeBlob whose https request failed was served by the http request.
C5_Witness ==
    /\ bpc = "idle" /\ op = "writeBlob"
    /\ Len(reqs) = 2 /\ res.status = 200

\* C6: when both requests failed in transport rest returns no response and
\* the error of the first request, not the error of the second.
C6_FirstErrorReturned ==
    (Returned /\ err2 # NoErr) =>
        /\ err = TransportErr(1) /\ err2 = TransportErr(2)
        /\ restRet = [res |-> NoRes, err |-> TransportErr(1)]

\* The health probe failed over https and over http, and returned.
C6_Witness ==
    /\ bpc = "idle" /\ op = "initialize"
    /\ err2 = TransportErr(2)
    /\ ret.err = TransportErr(1)

\* C7: an answer with status 401, to a GET or a POST, from the first or the
\* second request, makes rest return the authorization error and no
\* response; every other answer is returned as it is, with no error.
C7_UnauthorizedIsAnError ==
    Returned =>
        /\ res.status = 401 => restRet = [res |-> NoRes, err |-> UnauthorizedErr]
        /\ res.status \in Statuses \ {401} => restRet = [res |-> res, err |-> NoErr]
        /\ restRet.err = UnauthorizedErr => res.status = 401

\* A POST answered 401 by the http request, after the https request failed.
C7_Witness ==
    /\ bpc = "idle" /\ op = "writeBlob"
    /\ Len(reqs) = 2 /\ res.status = 401
    /\ ret.err = UnauthorizedErr

\* C8: readBlob returns an error when the object is absent (404) or the
\* backend cannot be reached, and returns a stream only when the object
\* exists.
C8_ReadBlobFailsWhenAbsent ==
    (bpc = "idle" /\ op = "readBlob") =>
        /\ (res.status = 404 \/ restRet.err.kind = "transport") =>
              (~ret.panic /\ ret.err # NoErr)
        /\ (~ret.panic /\ ret.err = NoErr) => res.status = 200

\* C9: a write that failed during Commit(id), in transport or by an answer
\* that is not a success, gives the commit caller an error and leaves id in
\* authUsers (unless the stage was deleted meanwhile).
C9_WriteFailureSurfaced ==
    (bpc = "idle" /\ op = "writeBlob" /\ (restRet.err # NoErr \/ res.status # 200)) =>
        /\ ret.err # NoErr
        /\ bid \notin deleted => bid \in Members(authUsers)

\* C10: after writeBlob(id, data) returned nil, a readBlob(id) that returns a
\* stream returns data.
C10_RoundTrip ==
    (bpc = "idle" /\ op = "readBlob" /\ lastWrite.id = bid /\ ~ret.panic /\ ret.err = NoErr) =>
        ret.body = lastWrite.data

\* C11: startSlurp runs backend.Initialize, then ssh.Start, then
\* api.StartApi, and gives up at the first failure: nothing is bound or
\* served before the step before it has succeeded; once the health probe has
\* failed the listener is never bound and the api never serves; once the
\* host key or the listener has failed the api never serves and no
\* connection is accepted.
C11_StartupAbortsAtFirstFailure ==
    /\ boot \in {"start", "backend", "ssh", "key"} => (listener = "none" /\ apiSrv = "none")
    /\ boot = "api" => (listener = "bound" /\ apiSrv = "none")
    /\ apiSrv = "serving" => (boot = "up" /\ listener = "bound")
    /\ fatal # "none" => (boot = "aborted" /\ apiSrv = "none")
    /\ fatal \in {"backend", "hostkey", "getkey", "parse", "listen"} =>
          /\ listener = "none"
          /\ \A c \in Conns : conn[c].st = "none"
    /\ fatal = "backend" => hostKey.by # boots

\* The second start of the process found the key file of the first in place
\* and failed to bind the listener.
C11_Witness ==
    /\ boots = 2 /\ hostKey.by = 1
    /\ fatal = "listen"

\* C12: a step never changes a host key file that exists, and a key pair is
\* generated only by a step that starts with no file at the path; so over
\* any number of starts the file keeps what the first generation wrote.
C12_HostKeyNeverRewritten ==
    [][/\ hostKey # NoFile => hostKey' = hostKey
       /\ gen' # gen => hostKey = NoFile]_vars

\* The second start of the process has gone through initialize and found
\* the key the first start wrote.
C12_Witness ==
    /\ boots = 2 /\ boot \in {"key", "api", "up"}
    /\ hostKey.whole /\ hostKey.by = 1

\* C13: the backend is chosen from the scheme of the store address (http
\* first for the insecure scheme, https first for every other), and the
\* first request of every backend call goes to the resolved host, over the
\* scheme the backend prefers, with the token.
C13_FirstRequestAsResolved ==
    /\ backend # NoBackend =>
          backend.proto = IF config.StoreAddr[1] = "hoarder" THEN "http" ELSE "https"
    /\ Len(reqs) >= 1 =>
          /\ reqs[1].host = storeAddr
          /\ reqs[1].scheme = backend.proto
          /\ reqs[1].token = ConfigStoreToken

\* C14: TLSClientConfig of the shared transport is assigned at startup only,
\* never by rest on behalf of a readBlob or a writeBlob.
C14_TransportWrittenAtStartupOnly ==
    transport.writers \subseteq {"initialize"}

\* A step in which connection c is lost to a failed Accept or handshake.
ConnFails(c) ==
    /\ conn[c].st = "none"
    /\ conn'[c].st \in {"acceptfailed", "failed"}

\* A step in which channel h is lost to a failed channel accept, or its
\* sync process fails to start, or ends otherwise than with exit code 0.
ChanFails(h) ==
    \/ chan[h].st = "none" /\ chan'[h].st = "acceptfailed"
    \/ child[h].st = "none" /\ child'[h].st = "startfail"
    \/ /\ child[h].st = "running" /\ child'[h].st = "exited"
       /\ child'[h].outcome # [kind |-> "exit", code |-> 0, sig |-> "-"]

\* C15: a step in which a connection fails (accept, handshake) changes
\* nothing of any other connection nor of any channel, and a step in which a
\* channel fails (channel accept, sync process not started or ended with an
\* error) changes nothing of any connection nor of any other channel; the
\* accept loop runs after it as before, and as long as the process runs the
\* loop takes new connections and every open channel that waits for a
\* request is served.
C15_FailureIsolation ==
    /\ [][/\ \A c \in Conns :
               ConnFails(c) =>
                  /\ listener' = "bound"
                  /\ \A d \in Conns \ {c} : conn'[d] = conn[d]
                  /\ chan' = chan /\ child' = child /\ log' = log
          /\ \A h \in Chans :
               ChanFails(h) =>
                  /\ listener' = "bound"
                  /\ conn' = conn
                  /\ \A g \in Chans \ {h} :
                        chan'[g] = chan[g] /\ child'[g] = child[g] /\ log'[g] = log[g]]_vars
    /\ [](boot \in {"api", "up"} =>
            /\ listener = "bound"
            /\ \A c \in Conns :
                  conn[c].st = "none" => ENABLED handleConnection(c, "x", "k1")
            /\ \A h \in Chans :
                  (chan[h].st = "open" /\ chan[h].pc = "wait" /\ chan[h].nreq < MaxReqs) =>
                      ENABLED requestLoop(h, "env", <<>>)
            /\ \A h \in Chans :
                  chan[h].pc = "run" => ENABLED waitedRun(h, [kind |-> "exit", code |-> 0, sig |-> "-"]))

\* One connection failed its handshake and the sync process of a channel
\* could not be started, while the channel of the other connection is open
\* with its sync process running.
C15_Witness ==
    \E h, g \in Chans :
        /\ child[h].st = "startfail"
        /\ child[g].st = "running" /\ chan[g].st = "open"
        /\ boot = "up"

Spawned(h) == child[h].st \in {"running", "exited"}

\* C16: every sync process is the fixed rsync command in config.BuildDir
\* with the user name of the channel's connection as its only varying
\* argument; two processes of sessions with the same user name have the
\* same command, arguments and directory, whatever the payloads were.
C16_CommandFromUserOnly ==
    /\ \A h \in Chans :
          Spawned(h) =>
              /\ child[h].argv = <<"rsync", "--server", "-vlogDtprRe.iLsfx", "--delete", ".",
                                    <<conn[ConnOf[h]].user, "/">>>>
              /\ child[h].dir = ConfigBuildDir
    /\ \A h, g \in Chans :
          (Spawned(h) /\ Spawned(g) /\ conn[ConnOf[h]].user = conn[ConnOf[g]].user) =>
              (child[h].argv = child[g].argv /\ child[h].dir = child[g].dir)

\* Two sessions of the same user got exec requests with different payloads
\* and both have their sync process running.
C16_Witness ==
    \E h, g \in Chans :
        /\ child[h].st = "running" /\ child[g].st = "running"
        /\ conn[ConnOf[h]].user = conn[ConnOf[g]].user
        /\ LastRequest(h)[3] # LastRequest(g)[3]

\* The channel's last request is an exec with a payload of 4 bytes or more.
LongExec(h) ==
    /\ log[h] # <<>>
    /\ LastRequest(h)[2] = "exec"
    /\ Len(LastRequest(h)[3]) >= 4

\* C17: a channel that handled an exec with a payload of 4 bytes or more is
\* closed only after its child has exited and the exit-status was sent on
\* it: the close comes after the exit-status, also when the child could not
\* be started.
C17_ClosedAfterExitStatus ==
    \A h \in Chans :
        (LongExec(h) /\ chan[h].st = "closed") =>
            /\ child[h].st = "exited"
            /\ \E i, j \in DOMAIN log[h] :
                  /\ i < j
                  /\ log[h][i][1] = "exit-status"
                  /\ log[h][j] = EvClose

\* C18: the success reply to an exec with a payload of 4 bytes or more is
\* sent while the channel is open: once the sync process is spawned the
\* reply has been sent, and no reply comes after the close.
C18_ReplyBeforeClose ==
    \A h \in Chans :
        LongExec(h) =>
            /\ child[h].st \in {"running", "exited"} =>
                  \E i \in DOMAIN log[h] : log[h][i] = EvReply(TRUE)
            /\ \A i, j \in DOMAIN log[h] :
                  (log[h][i] = EvClose /\ log[h][j][1] = "reply") => j < i

C20_OneSessionPerDirectory ==
    \A h, g \in Chans :
        (h # g /\ child[h].st = "running" /\ child[g].st = "running") =>
            child[h].argv # child[g].argv

\* C21: authUsers is read at the handshake only.  Every sync process is
\* that of a channel whose connection passed the handshake under a user
\* name that was given out by CreateStage (so was in authUsers then), and
\* the loop of an open channel takes an exec and starts the process whether
\* or not that name is still in authUsers.
C21_AuthorizedAtHandshakeOnly ==
    /\ [](\A h \in Chans :
            /\ Spawned(h) =>
                  /\ conn[ConnOf[h]].st = "authed"
                  /\ conn[ConnOf[h]].user \in created
                  /\ child[h].argv[6] = <<conn[ConnOf[h]].user, "/">>
            /\ (Accepting /\ chan[h].st = "open" /\ Ready(h) /\ chan[h].nreq < MaxReqs) =>
                  ENABLED requestLoop(h, "exec", <<0, 0, 0, 0>>))
    /\ [][\A c \in Conns :
            (conn[c].st = "none" /\ conn'[c].st = "authed") =>
                conn'[c].user \in Members(authUsers)]_vars

\* A sync process writing the directory of a deleted stage is running: it
\* was started, on a session that authenticated earlier, when the id was no
\* longer in authUsers.
C21_Witness ==
    \E h \in Chans :
        /\ child[h].st = "running"
        /\ ~child[h].listed
        /\ chan[h].build \in deleted
        /\ chan[h].build \notin Members(authUsers)

====
